---- MODULE Spec2Model ----
(***************************************************************************)
(* bmstu::optional<T> (bmstu_optional.h): a container owning zero or one T *)
(* built by placement new in a raw aligned buffer.                         *)
(*                                                                         *)
(* An optional instance is a record                                        *)
(*    is_initialized_  the flag of the class                               *)
(*    live             number of T objects constructed in data_ whose      *)
(*                     destructor has not run yet                          *)
(*    val              the value of the T in data_ (NoVal: no T value)     *)
(* Member functions are operators on a frame: the instance plus what the   *)
(* call produced (log of T lifetime events, error raised, value returned). *)
(***************************************************************************)
EXTENDS Integers, Sequences, FiniteSets

\* ---- bounds -------------------------------------------------------------
NumOpt == 2          \* optional instances the program declares
MaxVal == 2          \* T values are 1..MaxVal

Ids == 1..NumOpt
Vals == 1..MaxVal
NoVal == 0
NoId == 0

VARIABLES status, opt, link, last
vars == <<status, opt, link, last>>

\* ---- the storage and the flag --------------------------------------------
\* alignas(T) uint8_t data_[sizeof(T)]; bool is_initialized_ = false;
Blank == [is_initialized_ |-> FALSE, live |-> 0, val |-> NoVal]

\* a call in progress on instance o
Frame(o) == [is_initialized_ |-> o.is_initialized_, live |-> o.live, val |-> o.val,
             log |-> <<>>, err |-> "none", ret |-> NoVal, has |-> FALSE]

Obj(f) == [is_initialized_ |-> f.is_initialized_, live |-> f.live, val |-> f.val]

\* new (data_) T(v)
PlacementNew(f, v) ==
    [f EXCEPT !.live = @ + 1, !.val = v, !.log = Append(@, "ctor")]

\* reinterpret_cast<T*>(data_)->~T()
DestroyT(f) ==
    [f EXCEPT !.live = @ - 1, !.val = NoVal, !.log = Append(@, "dtor")]

\* **this = v   (T's own assignment into the T in data_)
AssignT(f, v) ==
    [f EXCEPT !.val = v, !.log = Append(@, "assign")]

\* a T constructor or assignment that throws: nothing is caught here
Throw(f) == [f EXCEPT !.err = "T_exception"]

\* ---- member functions -----------------------------------------------------
\* reset() that runs the destructor and forgets to clear the flag
reset_keeps_flag(f) ==
    IF f.is_initialized_ THEN DestroyT(f) ELSE f

\* reset() that treats an empty optional as an access error
reset_throws_on_empty(f) ==
    IF f.is_initialized_
    THEN [DestroyT(f) EXCEPT !.is_initialized_ = FALSE]
    ELSE [f EXCEPT !.err = "bad_optional_access"]

\* void reset()
reset(f) ==
    IF f.is_initialized_
    THEN [DestroyT(f) EXCEPT !.is_initialized_ = FALSE]
    ELSE f

\* a destructor that leaves the storage alone
destructor_trivial(f) == f

\* ~optional()
destructor(f) == reset(f)

\* optional() noexcept : is_initialized_(false)
optional_default(f) == [f EXCEPT !.is_initialized_ = FALSE]

\* optional(const T& value) : is_initialized_(true) { new (data_) T(value); }
optional_copy_T(f, v, fail) ==
    LET g == [f EXCEPT !.is_initialized_ = TRUE]
    IN  IF fail THEN Throw(g) ELSE PlacementNew(g, v)

\* optional(T&&) with the flag initialised false
optional_move_T_unflagged(f, v, fail) ==
    LET g == [f EXCEPT !.is_initialized_ = FALSE]
    IN  IF fail THEN [g EXCEPT !.err = "terminate"] ELSE PlacementNew(g, v)

\* optional(T&& value) noexcept : is_initialized_(true)
optional_move_T(f, v, fail) ==
    LET g == [f EXCEPT !.is_initialized_ = TRUE]
    IN  IF fail THEN [g EXCEPT !.err = "terminate"] ELSE PlacementNew(g, v)

\* optional(const optional&) that copies the flag and constructs nothing
optional_copy_flag_only(f, other, fail) ==
    [f EXCEPT !.is_initialized_ = other.is_initialized_]

\* optional(const optional& other) : is_initialized_(other.is_initialized_)
optional_copy(f, other, fail) ==
    LET g == [f EXCEPT !.is_initialized_ = other.is_initialized_]
    IN  IF other.is_initialized_
        THEN IF fail THEN Throw(g) ELSE PlacementNew(g, other.val)
        ELSE g

\* optional(optional&& other) noexcept : is_initialized_(other.is_initialized_)
optional_move(f, other, fail) ==
    LET g == [f EXCEPT !.is_initialized_ = other.is_initialized_]
    IN  IF other.is_initialized_
        THEN IF fail THEN [g EXCEPT !.err = "terminate"] ELSE PlacementNew(g, other.val)
        ELSE g

\* a move that destroys the source's T and clears the source
MovedFromCleared(other, m) == Blank

\* what a move out of `other` leaves behind: the flag and the T stay, the
\* T's value is whatever T's move leaves (m)
MovedFrom(other, m) ==
    IF other.is_initialized_ THEN [other EXCEPT !.val = m] ELSE other

\* operator=(const T&) that constructs without looking at the flag
assign_copy_T_always_new(f, v, fail, w) ==
    IF fail THEN Throw(f)
    ELSE [PlacementNew(f, v) EXCEPT !.is_initialized_ = TRUE]

\* operator=(const T&) that marks engaged before it constructs
assign_copy_T_flag_first(f, v, fail, w) ==
    IF f.is_initialized_
    THEN IF fail THEN Throw(AssignT(f, w)) ELSE AssignT(f, v)
    ELSE IF fail THEN Throw([f EXCEPT !.is_initialized_ = TRUE])
         ELSE PlacementNew([f EXCEPT !.is_initialized_ = TRUE], v)

\* optional& operator=(const T& value)
assign_copy_T(f, v, fail, w) ==
    IF f.is_initialized_
    THEN IF fail THEN Throw(AssignT(f, w)) ELSE AssignT(f, v)
    ELSE IF fail THEN Throw(f)
         ELSE [PlacementNew(f, v) EXCEPT !.is_initialized_ = TRUE]

\* optional& operator=(T&& value)
assign_move_T(f, v, fail, w) ==
    IF f.is_initialized_
    THEN IF fail THEN Throw(AssignT(f, w)) ELSE AssignT(f, v)
    ELSE IF fail THEN Throw(f)
         ELSE [PlacementNew(f, v) EXCEPT !.is_initialized_ = TRUE]

\* operator=(const optional&) without the this != &other test
assign_copy_no_self_test(f, other, same, fail, w) ==
    IF other.is_initialized_
    THEN IF f.is_initialized_
         THEN IF fail THEN Throw(AssignT(f, w)) ELSE AssignT(f, other.val)
         ELSE IF fail THEN Throw(f)
              ELSE [PlacementNew(f, other.val) EXCEPT !.is_initialized_ = TRUE]
    ELSE reset(f)

\* optional& operator=(const optional& other), this != &other decided by same
assign_copy(f, other, same, fail, w) ==
    IF ~same
    THEN IF other.is_initialized_
         THEN IF f.is_initialized_
              THEN IF fail THEN Throw(AssignT(f, w)) ELSE AssignT(f, other.val)
              ELSE IF fail THEN Throw(f)
                   ELSE [PlacementNew(f, other.val) EXCEPT !.is_initialized_ = TRUE]
         ELSE reset(f)
    ELSE f

\* operator=(optional&&) that does nothing for an empty other
assign_move_no_reset(f, other, same, fail) ==
    IF ~same /\ other.is_initialized_
    THEN IF fail THEN [f EXCEPT !.err = "terminate"]
         ELSE IF f.is_initialized_
              THEN AssignT(f, other.val)
              ELSE [PlacementNew(f, other.val) EXCEPT !.is_initialized_ = TRUE]
    ELSE f

\* optional& operator=(optional&& other) noexcept
assign_move(f, other, same, fail) ==
    IF ~same
    THEN IF other.is_initialized_
         THEN IF fail THEN [f EXCEPT !.err = "terminate"]
              ELSE IF f.is_initialized_
                   THEN AssignT(f, other.val)
                   ELSE [PlacementNew(f, other.val) EXCEPT !.is_initialized_ = TRUE]
         ELSE reset(f)
    ELSE f

\* T& operator*() & : no check, reads whatever data_ holds (g when no T is there)
deref(f, g) ==
    [f EXCEPT !.ret = IF f.live >= 1 THEN f.val ELSE g]

\* value() without the check
value_unchecked(f, g) == deref(f, g)

\* T& value() &
value(f, g) ==
    IF ~f.is_initialized_
    THEN [f EXCEPT !.err = "bad_optional_access"]
    ELSE deref(f, g)

\* emplace without the reset
emplace_no_reset(f, v, fail) ==
    IF fail THEN Throw(f)
    ELSE [PlacementNew(f, v) EXCEPT !.is_initialized_ = TRUE]

\* emplace that assigns into the T it finds
emplace_assigns(f, v, fail) ==
    IF f.is_initialized_
    THEN IF fail THEN Throw(f) ELSE AssignT(f, v)
    ELSE IF fail THEN Throw(f)
         ELSE [PlacementNew(f, v) EXCEPT !.is_initialized_ = TRUE]

\* emplace that marks engaged before it constructs
emplace_flag_first(f, v, fail) ==
    LET r == [reset(f) EXCEPT !.is_initialized_ = TRUE]
    IN  IF fail THEN Throw(r) ELSE PlacementNew(r, v)

\* template <typename... Args> void emplace(Args&&... args)
emplace(f, v, fail) ==
    LET r == reset(f)
    IN  IF fail THEN Throw(r)
        ELSE [PlacementNew(r, v) EXCEPT !.is_initialized_ = TRUE]

\* bool has_value() const noexcept
has_value(f) == [f EXCEPT !.has = f.is_initialized_]

\* ---- the program: declarations, calls and scope exits ---------------------
NoCall == [op |-> "none", self |-> NoId, other |-> NoId, arg |-> NoVal,
           err |-> "none", ret |-> NoVal, has |-> FALSE,
           pre |-> Blank, preOther |-> Blank, log |-> <<>>]

\* the latest construction of an optional out of an engaged optional:
\* which constructor, from which instance, which instance it built
NoLink == [op |-> "none", from |-> NoId, to |-> NoId]

Init ==
    /\ status = [i \in Ids |-> "unborn"]
    /\ opt = [i \in Ids |-> Blank]
    /\ link = NoLink
    /\ last = NoCall

\* std::terminate ends the program; a running program has not terminated
Running == last.err # "terminate"

\* the call is recorded: what was called on what, what it found, what it did
Account(op, i, j, v, f) ==
    /\ last' = [op |-> op, self |-> i, other |-> j, arg |-> v,
                err |-> f.err, ret |-> f.ret, has |-> f.has,
                pre |-> opt[i], preOther |-> IF j = NoId THEN Blank ELSE opt[j],
                log |-> f.log]

\* a constructor that throws (or terminates) leaves no instance behind
Construct(op, i, j, v, f, src) ==
    /\ Running
    /\ status[i] = "unborn"
    /\ Account(op, i, j, v, f)
    /\ IF f.err = "none"
       THEN /\ status' = [status EXCEPT ![i] = "alive"]
            /\ opt' = IF j = NoId THEN [opt EXCEPT ![i] = Obj(f)]
                      ELSE [opt EXCEPT ![i] = Obj(f), ![j] = src]
            /\ link' = IF j # NoId /\ opt[j].is_initialized_
                       THEN [op |-> op, from |-> j, to |-> i]
                       ELSE link
       ELSE UNCHANGED <<status, opt, link>>

\* a member function call on a live instance
Call(op, i, j, v, f, src) ==
    /\ Running
    /\ status[i] = "alive"
    /\ Account(op, i, j, v, f)
    /\ IF f.err = "terminate"
       THEN UNCHANGED opt
       ELSE opt' = IF j = NoId \/ j = i THEN [opt EXCEPT ![i] = Obj(f)]
                   ELSE [opt EXCEPT ![i] = Obj(f), ![j] = src]
    /\ UNCHANGED <<status, link>>

\* the outcomes of the T operation a call runs: it may throw only if it runs
MayFail(runs) == IF runs THEN BOOLEAN ELSE {FALSE}

\* the values an unspecified T state may hold (moved-from T, T whose assignment
\* threw, bytes of a buffer holding no T), when the call reads or makes one
Left(happens) == IF happens THEN Vals ELSE {NoVal}

DefaultConstruct(i) ==
    Construct("optional_default", i, NoId, NoVal, optional_default(Frame(Blank)), Blank)

CopyConstructT(i) ==
    \E v \in Vals, fail \in BOOLEAN :
        Construct("optional_copy_T", i, NoId, v, optional_copy_T(Frame(Blank), v, fail), Blank)

MoveConstructT(i) ==
    \E v \in Vals, fail \in BOOLEAN :
        Construct("optional_move_T", i, NoId, v, optional_move_T(Frame(Blank), v, fail), Blank)

CopyConstruct(i, j) ==
    /\ status[j] = "alive"
    /\ \E fail \in MayFail(opt[j].is_initialized_) :
        Construct("optional_copy", i, j, NoVal, optional_copy(Frame(Blank), opt[j], fail), opt[j])

MoveConstruct(i, j) ==
    /\ status[j] = "alive"
    /\ \E fail \in MayFail(opt[j].is_initialized_) :
       \E m \in Left(~fail /\ opt[j].is_initialized_) :
        Construct("optional_move", i, j, NoVal, optional_move(Frame(Blank), opt[j], fail),
                  MovedFrom(opt[j], m))

AssignCopyT(i) ==
    \E v \in Vals, fail \in BOOLEAN :
      \E w \in Left(fail /\ opt[i].is_initialized_) :
        Call("assign_copy_T", i, NoId, v, assign_copy_T(Frame(opt[i]), v, fail, w), Blank)

AssignMoveT(i) ==
    \E v \in Vals, fail \in BOOLEAN :
      \E w \in Left(fail /\ opt[i].is_initialized_) :
        Call("assign_move_T", i, NoId, v, assign_move_T(Frame(opt[i]), v, fail, w), Blank)

AssignCopy(i, j) ==
    /\ status[j] = "alive"
    /\ \E fail \in MayFail(i # j /\ opt[j].is_initialized_) :
       \E w \in Left(fail /\ opt[i].is_initialized_) :
        Call("assign_copy", i, j, NoVal,
             assign_copy(Frame(opt[i]), opt[j], i = j, fail, w), opt[j])

AssignMove(i, j) ==
    /\ status[j] = "alive"
    /\ \E fail \in MayFail(i # j /\ opt[j].is_initialized_) :
       \E m \in Left(~fail /\ i # j /\ opt[j].is_initialized_) :
        Call("assign_move", i, j, NoVal,
             assign_move(Frame(opt[i]), opt[j], i = j, fail), MovedFrom(opt[j], m))

Deref(i) ==
    \E g \in Left(opt[i].live < 1) : Call("deref", i, NoId, NoVal, deref(Frame(opt[i]), g), Blank)

Value(i) ==
    \E g \in Left(opt[i].live < 1) : Call("value", i, NoId, NoVal, value(Frame(opt[i]), g), Blank)

Emplace(i) ==
    \E v \in Vals, fail \in BOOLEAN :
        Call("emplace", i, NoId, v, emplace(Frame(opt[i]), v, fail), Blank)

Reset(i) == Call("reset", i, NoId, NoVal, reset(Frame(opt[i])), Blank)

HasValue(i) == Call("has_value", i, NoId, NoVal, has_value(Frame(opt[i])), Blank)

\* the instance goes out of scope
Destroy(i) ==
    /\ Running
    /\ status[i] = "alive"
    /\ Account("destructor", i, NoId, NoVal, destructor(Frame(opt[i])))
    /\ opt' = [opt EXCEPT ![i] = Obj(destructor(Frame(opt[i])))]
    /\ status' = [status EXCEPT ![i] = "dead"]
    /\ UNCHANGED link

Next ==
    \/ \E i \in Ids : DefaultConstruct(i)
    \/ \E i \in Ids : CopyConstructT(i)
    \/ \E i \in Ids : MoveConstructT(i)
    \/ \E i, j \in Ids : CopyConstruct(i, j)
    \/ \E i, j \in Ids : MoveConstruct(i, j)
    \/ \E i \in Ids : AssignCopyT(i)
    \/ \E i \in Ids : AssignMoveT(i)
    \/ \E i, j \in Ids : AssignCopy(i, j)
    \/ \E i, j \in Ids : AssignMove(i, j)
    \/ \E i \in Ids : Deref(i)
    \/ \E i \in Ids : Value(i)
    \/ \E i \in Ids : Emplace(i)
    \/ \E i \in Ids : Reset(i)
    \/ \E i \in Ids : HasValue(i)
    \/ \E i \in Ids : Destroy(i)

Spec == Init /\ [][Next]_vars

\* ---- reading a recorded call ------------------------------------------------
\* number of live T objects in the storage after the first k events of a call
\* that found n of them
LiveAfter(n, log, k) ==
    n + Cardinality({x \in 1..k : log[x] = "ctor"})
      - Cardinality({x \in 1..k : log[x] = "dtor"})

\* every T event of the recorded call was legal for the storage it acted on:
\* a constructor ran only on storage holding no live T, a destructor or an
\* assignment only on storage holding one
LegalEvents(c) ==
    \A k \in DOMAIN c.log :
        IF c.log[k] = "ctor"
        THEN LiveAfter(c.pre.live, c.log, k - 1) = 0
        ELSE LiveAfter(c.pre.live, c.log, k - 1) = 1

Ok(c) == c.err = "none"

\* ---- C1 ---------------------------------------------------------------------
\* C1: in every reachable state, for every instance, the engaged flag is true
\* exactly when one T is live in the instance's storage (and never more than
\* one T is live there), and no call constructed a T into storage that
\* already held a live T.
C1_EngagedIffOneLive ==
    /\ \A i \in Ids :
          /\ opt[i].live \in {0, 1}
          /\ opt[i].is_initialized_ <=> (opt[i].live = 1)
    /\ \A k \in DOMAIN last.log :
          last.log[k] = "ctor" => LiveAfter(last.pre.live, last.log, k - 1) = 0

\* an emplace ran on an engaged instance while another instance was alive
C1_Witness ==
    /\ last.op = "emplace" /\ Ok(last)
    /\ last.pre.is_initialized_
    /\ opt[last.self].is_initialized_ /\ opt[last.self].live = 1
    /\ \E j \in Ids : j # last.self /\ status[j] = "alive"

\* ---- C2 ---------------------------------------------------------------------
\* C2: value() on an instance that is not engaged raises bad_optional_access
\* and leaves it empty; on an engaged instance it raises nothing, returns the
\* contained value and leaves flag and value as they were.
C2_ValueChecked ==
    last.op = "value" =>
        /\ opt[last.self] = last.pre
        /\ IF last.pre.is_initialized_
           THEN /\ last.err = "none"
                /\ last.ret = last.pre.val
                /\ last.ret \in Vals
           ELSE /\ last.err = "bad_optional_access"
                /\ last.ret = NoVal
                /\ ~opt[last.self].is_initialized_

\* value() raised on an empty instance
C2_Witness ==
    /\ last.op = "value"
    /\ ~last.pre.is_initialized_
    /\ last.err = "bad_optional_access"
    /\ ~opt[last.self].is_initialized_

\* ---- C3 ---------------------------------------------------------------------
AllGone == /\ \A i \in Ids : status[i] # "alive"
           /\ \E i \in Ids : status[i] = "dead"

\* C3: the destructor does what reset() does, no destructor ever runs on
\* storage without a live T (no double destruction), and once every instance
\* is destroyed no storage holds a live T (no leak): with the constructions
\* all legal, every T constructed was destroyed exactly once.
C3_DestroyedExactlyOnce ==
    /\ LegalEvents(last)
    /\ \A i \in Ids : opt[i].live >= 0
    /\ \A i \in Ids : status[i] = "dead" => opt[i] = Blank
    /\ last.op = "destructor" =>
          /\ opt[last.self] = Obj(reset(Frame(last.pre)))
          /\ last.log = reset(Frame(last.pre)).log
          /\ last.log = IF last.pre.is_initialized_ THEN <<"dtor">> ELSE <<>>
    /\ AllGone => \A i \in Ids : opt[i].live = 0

\* every instance is gone, one of them was move-constructed from an engaged
\* one, and the last destructor destroyed a T
C3_Witness ==
    /\ AllGone
    /\ \A i \in Ids : status[i] = "dead"
    /\ link.op = "optional_move"
    /\ last.op = "destructor"
    /\ last.pre.is_initialized_
    /\ last.log = <<"dtor">>

\* ---- C4 ---------------------------------------------------------------------
\* C4: an optional constructed from a value v (copy or move) is engaged, one
\* T was constructed, and value() on it raises nothing and returns v; a
\* default-constructed optional is not engaged and no T was constructed.
C4_ConstructFromValue ==
    /\ (last.op \in {"optional_copy_T", "optional_move_T"} /\ Ok(last)) =>
          /\ status[last.self] = "alive"
          /\ has_value(Frame(opt[last.self])).has
          /\ last.log = <<"ctor">>
          /\ opt[last.self].live = 1
          /\ \A g \in Vals \cup {NoVal} :
                /\ value(Frame(opt[last.self]), g).err = "none"
                /\ value(Frame(opt[last.self]), g).ret = last.arg
    /\ last.op = "optional_default" =>
          /\ status[last.self] = "alive"
          /\ ~has_value(Frame(opt[last.self])).has
          /\ last.log = <<>>
          /\ opt[last.self].live = 0

\* an optional was just move-constructed from a value
C4_Witness ==
    /\ last.op = "optional_move_T" /\ Ok(last)
    /\ last.arg \in Vals
    /\ opt[last.self].is_initialized_
    /\ opt[last.self].val = last.arg

\* ---- C5 ---------------------------------------------------------------------
\* C5: reset() on an engaged optional runs the T's destructor once and leaves
\* has_value() false; on an empty one it does nothing; and a second reset()
\* right after changes nothing and destroys nothing more.
C5_Reset ==
    last.op = "reset" =>
        LET once == reset(Frame(last.pre))
            twice == reset(reset(Frame(last.pre)))
        IN  /\ Ok(last)
            /\ ~opt[last.self].is_initialized_
            /\ IF last.pre.is_initialized_
               THEN last.log = <<"dtor">> /\ opt[last.self].live = last.pre.live - 1
               ELSE last.log = <<>> /\ opt[last.self] = last.pre
            /\ Obj(twice) = opt[last.self]
            /\ twice.log = last.log
            /\ Obj(twice) = Obj(once)

\* reset() just destroyed the T of an engaged optional
C5_Witness ==
    /\ last.op = "reset"
    /\ last.pre.is_initialized_
    /\ last.log = <<"dtor">>
    /\ ~opt[last.self].is_initialized_

\* ---- C6 ---------------------------------------------------------------------
\* C6: assigning a value v (copy or move) that does not throw: on an engaged
\* optional it is one T assignment, no T constructed or destroyed, still
\* engaged; on an empty optional it is one T construction, now engaged; the
\* contained value is v either way.
C6_AssignValue ==
    (last.op \in {"assign_copy_T", "assign_move_T"} /\ Ok(last)) =>
        /\ last.log = IF last.pre.is_initialized_ THEN <<"assign">> ELSE <<"ctor">>
        /\ opt[last.self].is_initialized_
        /\ opt[last.self].live = 1
        /\ opt[last.self].val = last.arg
        /\ last.arg \in Vals

\* a value was copy-assigned over a different value of an engaged optional
C6_Witness ==
    /\ last.op = "assign_copy_T" /\ Ok(last)
    /\ last.pre.is_initialized_
    /\ last.pre.val # last.arg
    /\ opt[last.self].val = last.arg
    /\ last.log = <<"assign">>

\* ---- C7 ---------------------------------------------------------------------
\* C7: assigning optional `other` to a distinct optional (copy or move),
\* nothing thrown: from an empty other it is a reset (the T, if any,
\* destroyed once); from an engaged other to an engaged target one T
\* assignment; from an engaged other to an empty target one T construction.
\* Afterwards the target is engaged exactly if other was, with other's value.
C7_AssignOptional ==
    (/\ last.op \in {"assign_copy", "assign_move"}
     /\ last.self # last.other
     /\ Ok(last)) =>
        /\ last.log = IF ~last.preOther.is_initialized_
                      THEN IF last.pre.is_initialized_ THEN <<"dtor">> ELSE <<>>
                      ELSE IF last.pre.is_initialized_ THEN <<"assign">> ELSE <<"ctor">>
        /\ opt[last.self].is_initialized_ = last.preOther.is_initialized_
        /\ opt[last.self].val = last.preOther.val
        /\ opt[last.self].live = IF last.preOther.is_initialized_ THEN 1 ELSE 0

\* an engaged optional was move-assigned to an empty one
C7_Witness ==
    /\ last.op = "assign_move" /\ Ok(last)
    /\ last.self # last.other
    /\ last.preOther.is_initialized_
    /\ ~last.pre.is_initialized_
    /\ opt[last.self].is_initialized_
    /\ opt[last.self].val = last.preOther.val

\* ---- C8 ---------------------------------------------------------------------
\* C8: an emplace(v) that does not throw ends engaged with value v; on an
\* engaged optional the old T's destructor runs once and before the new T's
\* constructor, on an empty one only the constructor runs.
C8_EmplaceOrder ==
    (last.op = "emplace" /\ Ok(last)) =>
        /\ last.log = IF last.pre.is_initialized_ THEN <<"dtor", "ctor">> ELSE <<"ctor">>
        /\ opt[last.self].is_initialized_
        /\ opt[last.self].live = 1
        /\ opt[last.self].val = last.arg
        /\ last.arg \in Vals

\* emplace replaced the value of an engaged optional by a different one
C8_Witness ==
    /\ last.op = "emplace" /\ Ok(last)
    /\ last.pre.is_initialized_
    /\ last.pre.val # last.arg
    /\ last.log = <<"dtor", "ctor">>
    /\ opt[last.self].val = last.arg

\* ---- C9 ---------------------------------------------------------------------
\* C9: when T's constructor throws in emplace, the optional is left empty
\* with no live T, and the old value (if there was one) was destroyed once.
C9_EmplaceThrows ==
    (last.op = "emplace" /\ last.err = "T_exception") =>
        /\ ~opt[last.self].is_initialized_
        /\ opt[last.self].live = 0
        /\ last.log = IF last.pre.is_initialized_ THEN <<"dtor">> ELSE <<>>

\* T's constructor threw in an emplace on an engaged optional
C9_Witness ==
    /\ last.op = "emplace"
    /\ last.err = "T_exception"
    /\ last.pre.is_initialized_
    /\ ~opt[last.self].is_initialized_

\* ---- C10 --------------------------------------------------------------------
\* the calls that mutate one optional and take no other optional
OwnMutations == {"assign_copy_T", "assign_move_T", "emplace", "reset", "destructor"}

\* what copy construction leaves, read off the recorded call
CopyConstructed ==
    (last.op = "optional_copy" /\ Ok(last)) =>
        /\ opt[last.self].is_initialized_ = last.preOther.is_initialized_
        /\ opt[last.self].val = last.preOther.val
        /\ opt[last.self].live = IF last.preOther.is_initialized_ THEN 1 ELSE 0
        /\ last.log = IF last.preOther.is_initialized_ THEN <<"ctor">> ELSE <<>>
        /\ opt[last.other] = last.preOther
        /\ status[last.other] = "alive"

\* C10: copy-constructing B from A leaves A as it was and B engaged exactly
\* if A is, with A's value in storage of its own; and a later value
\* assignment, emplace, reset or destruction of one optional leaves every
\* other optional's flag and value as they were.
C10_CopyIndependent ==
    [][ /\ CopyConstructed'
        /\ last'.op \in OwnMutations =>
              \A a \in Ids \ {last'.self} :
                  opt'[a] = opt[a] /\ status'[a] = status[a] ]_vars

\* B was copy-constructed from the engaged A, B's value was then emplaced
\* to another one, and A still holds its own
C10_Witness ==
    /\ link.op = "optional_copy"
    /\ last.op = "emplace" /\ Ok(last)
    /\ last.self = link.to
    /\ status[link.from] = "alive"
    /\ opt[link.from].is_initialized_
    /\ opt[link.from].val = last.pre.val
    /\ opt[link.to].val # opt[link.from].val

\* ---- C11 --------------------------------------------------------------------
\* C11: a = a, in the copy and in the move form, raises nothing, runs no T
\* constructor, assignment or destructor and leaves a's flag and value as
\* they were, for an engaged and for an empty a.
C11_SelfAssign ==
    (last.op \in {"assign_copy", "assign_move"} /\ last.self = last.other) =>
        /\ Ok(last)
        /\ last.log = <<>>
        /\ opt[last.self] = last.pre
        /\ last.preOther = last.pre
        /\ status[last.self] = "alive"

\* an engaged optional was copy-assigned to itself
C11_Witness ==
    /\ last.op = "assign_copy"
    /\ last.self = last.other
    /\ last.pre.is_initialized_
    /\ opt[last.self].is_initialized_
    /\ opt[last.self].val \in Vals

\* ---- C12 --------------------------------------------------------------------
\* a T constructor or assignment failed in the recorded call
TFailed(c) == c.err \in {"T_exception", "terminate"}

\* the calls the claim is about (dereference of an empty optional is
\* undefined and left out)
Checked(c) ==
    \/ c.op \in {"optional_default", "optional_copy_T", "optional_move_T",
                 "optional_copy", "optional_move", "assign_copy_T",
                 "assign_move_T", "assign_copy", "assign_move", "value",
                 "emplace", "reset", "has_value", "destructor"}
    \/ c.op = "deref" /\ c.pre.is_initialized_

\* C12: in a call in which no T constructor or assignment fails, the only
\* error raised is bad_optional_access, and only by value() on an optional
\* that is not engaged; every other call raises nothing.
C12_OnlyValueFails ==
    /\ last.err \in {"none", "bad_optional_access", "T_exception", "terminate"}
    /\ (Checked(last) /\ ~TFailed(last) /\ ~Ok(last)) =>
          /\ last.op = "value"
          /\ last.err = "bad_optional_access"
          /\ ~last.pre.is_initialized_

\* value() raised on an empty optional while another optional was engaged
C12_Witness ==
    /\ last.op = "value"
    /\ last.err = "bad_optional_access"
    /\ \E j \in Ids \ {last.self} : status[j] = "alive" /\ opt[j].is_initialized_

\* ---- C13 --------------------------------------------------------------------
\* C13: a move construction or move assignment from a distinct engaged
\* optional leaves the source engaged with one live T in its own storage and
\* the target engaged; from an empty source it leaves source and target
\* empty.
C13_MoveKeepsSource ==
    (/\ last.op \in {"optional_move", "assign_move"}
     /\ last.self # last.other
     /\ Ok(last)) =>
        IF last.preOther.is_initialized_
        THEN /\ opt[last.other].is_initialized_
             /\ opt[last.other].live = 1
             /\ opt[last.other].val \in Vals
             /\ status[last.other] = "alive"
             /\ opt[last.self].is_initialized_
             /\ opt[last.self].live = 1
        ELSE /\ opt[last.other] = last.preOther
             /\ ~opt[last.other].is_initialized_
             /\ ~opt[last.self].is_initialized_
             /\ opt[last.self].live = 0

\* an optional was move-constructed from an engaged one, which is still
\* engaged
C13_Witness ==
    /\ last.op = "optional_move" /\ Ok(last)
    /\ last.preOther.is_initialized_
    /\ opt[last.other].is_initialized_
    /\ opt[last.other].live = 1
    /\ opt[last.self].is_initialized_

\* ---- C14 --------------------------------------------------------------------
\* T's constructor threw while a value or an engaged optional was assigned
\* to an empty optional
ThrewIntoEmpty(c) ==
    /\ c.op \in {"assign_copy_T", "assign_move_T", "assign_copy"}
    /\ c.err = "T_exception"
    /\ ~c.pre.is_initialized_

\* C14: when T's constructor throws while a value or an engaged optional is
\* assigned to an empty optional, the target stays empty with no live T; and
\* has_value() returns the flag and changes nothing.
C14_ThrowKeepsEmpty ==
    [][ /\ ThrewIntoEmpty(last') =>
              /\ ~opt'[last'.self].is_initialized_
              /\ opt'[last'.self].live = 0
              /\ last'.log = <<>>
              /\ opt' = opt
        /\ last'.op = "has_value" =>
              /\ last'.has = opt[last'.self].is_initialized_
              /\ last'.err = "none"
              /\ <<status, opt, link>>' = <<status, opt, link>> ]_vars

\* T's copy constructor threw while an engaged optional was copy-assigned
\* to an empty one, which is still empty
C14_Witness ==
    /\ last.op = "assign_copy"
    /\ last.err = "T_exception"
    /\ last.preOther.is_initialized_
    /\ ~last.pre.is_initialized_
    /\ ~opt[last.self].is_initialized_
    /\ opt[last.self].live = 0

====
